---- MODULE Spec2Model ----
(***************************************************************************)
(* Model of quicknote.py (NoteApp): the notes directory, the note cache,   *)
(* the list widget and the editor, driven by the Qt callbacks              *)
(* (new-note button, title confirmation, list selection, delete button,    *)
(* autosave timer, window close) on one event loop.                        *)
(*                                                                         *)
(* Representation.  A file path is the pair <<ts, name>> of the            *)
(* "%Y%m%d%H%M%S" timestamp (a number, fixed width in the file name) and   *)
(* the title with blanks replaced by underscores; the directory prefix and *)
(* the ".json" suffix are the same for every path.  Python's None is the   *)
(* empty tuple.  A title is a sequence of one-character strings.  A file   *)
(* is a record with a flag wf (its text parses as JSON), a flag dict (the   *)
(* JSON value is an object) and the four fields of the note; a cached      *)
(* value (what json.load returned) has the flag dict and the four fields.  *)
(***************************************************************************)
EXTENDS Naturals, Sequences, FiniteSets, TLC

\* ---------------------------------------------------------------- bounds
MaxClock == 2
MaxNotes == 2

\* ---------------------------------------------------------------- inputs
\* what the user types as a title (the input is empty after it is cleared)
TitleInputs == { <<" ">>, <<" ", "a", " ", "b">> }

Contents == { "", "x" }

WriteOutcomes == { "ok", "denied", "torn" }

None == <<>>

VARIABLES
    disk,              \* the notes directory: path -> file
    note_cache,        \* self.note_cache: path -> note
    current_note,      \* self.current_note: path or None
    is_new_note_mode,  \* self.is_new_note_mode
    note_editor,       \* text of self.note_editor
    title_input,       \* text of self.title_input
    editor_stack,      \* current index of self.editor_stack
    notes_list,        \* items of self.notes_list: sequence of [path, title]
    list_current,      \* path of self.notes_list.currentItem(), or None
    clock,             \* datetime.now() in seconds
    phase,             \* "running", "closed" or "crashed" (uncaught exception)
    last,              \* history: the callback that ran last and how it ended
                       \* (user input to the widgets is recorded as "input")
    deleted,           \* history: paths deleted and not created again since
    persisted,         \* history: path -> title and content of the last
                       \* write of the note that completed
    outgoing           \* history: <<path, text>> of the note that was active
                       \* and the text the editor held for it when another
                       \* note became active, until the tick after that;
                       \* <<>> otherwise (Untracked where no record is kept)

vars == << disk, note_cache, current_note, is_new_note_mode, note_editor,
           title_input, editor_stack, notes_list, list_current, clock,
           phase, last, deleted, persisted, outgoing >>

\* ------------------------------------------------------- finite functions
Put(f, k, v) == [x \in (DOMAIN f) \cup {k} |-> IF x = k THEN v ELSE f[x]]

Drop(f, k) == [x \in (DOMAIN f) \ {k} |-> f[x]]

EmptyMap == [x \in {} |-> x]

\* ------------------------------------------------------------ str methods
IsSpace(ch) == ch = " "

RECURSIVE lstrip(_)
lstrip(s) == IF s # <<>> /\ IsSpace(Head(s)) THEN lstrip(Tail(s)) ELSE s

RECURSIVE rstrip(_)
rstrip(s) ==
    IF s # <<>> /\ IsSpace(s[Len(s)]) THEN rstrip(SubSeq(s, 1, Len(s) - 1)) ELSE s

\* the title taken as typed
strip_nothing(s) == s

\* title.strip()
strip(s) == rstrip(lstrip(s))

\* title.replace(' ', '_')
replace_space(s) == [i \in 1..Len(s) |-> IF s[i] = " " THEN "_" ELSE s[i]]

\* ord() of the characters that occur in file names
Ord(ch) ==
    CASE ch = " " -> 32
      [] ch = "." -> 46
      [] ch = "_" -> 95
      [] ch = "a" -> 97
      [] ch = "b" -> 98

\* str.__lt__
RECURSIVE StrLess(_, _)
StrLess(s, t) ==
    IF t = <<>> THEN FALSE
    ELSE IF s = <<>> THEN TRUE
    ELSE IF Head(s) = Head(t) THEN StrLess(Tail(s), Tail(t))
    ELSE Ord(Head(s)) < Ord(Head(t))

\* Order of the file names f"{timestamp}_{name}.json": the timestamps have
\* the same width, and after them the names differ at or before the ".".
FileNameLess(p, q) ==
    \/ p[1] < q[1]
    \/ p[1] = q[1] /\ StrLess(p[2] \o <<".">>, q[2] \o <<".">>)

\* the files sorted in ascending order
RECURSIVE SortForward(_)
SortForward(S) ==
    IF S = {} THEN <<>>
    ELSE LET m == CHOOSE p \in S : \A q \in S \ {p} : FileNameLess(p, q)
         IN  <<m>> \o SortForward(S \ {m})

\* note_files.sort(reverse=True)
RECURSIVE SortReverse(_)
SortReverse(S) ==
    IF S = {} THEN <<>>
    ELSE LET m == CHOOSE p \in S : \A q \in S \ {p} : FileNameLess(q, p)
         IN  <<m>> \o SortReverse(S \ {m})

\* ------------------------------------------------------------------- json
\* json.dump(note_data, f), the write completing
json_dump(note) ==
    [wf |-> TRUE, dict |-> note.dict, title |-> note.title,
     content |-> note.content, created |-> note.created,
     updated |-> note.updated]

\* what a write leaves when it fails after open() has truncated the file
TornFile ==
    [wf |-> FALSE, dict |-> FALSE, title |-> <<>>, content |-> "",
     created |-> 0, updated |-> 0]

\* json.load(f) raises on a file that does not parse
json_loadable(file) == file.wf

json_load(file) ==
    [dict |-> file.dict, title |-> file.title, content |-> file.content,
     created |-> file.created, updated |-> file.updated]

\* note_data.get(...) and note_data[...] = ... raise on a value that is not
\* a dict
is_dict(value) == value.dict

\* with open(filepath, 'w') as f: json.dump(note_data, f)
WriteFile(dsk, p, note, outcome) ==
    CASE outcome = "ok"     -> Put(dsk, p, json_dump(note))
      [] outcome = "denied" -> dsk
      [] outcome = "torn"   -> Put(dsk, p, TornFile)

\* ------------------------------------------------------ the window's state
\* The fields of NoteApp and its widgets that the callbacks read and write.
AppState ==
    [cache |-> note_cache, cur |-> current_note, newmode |-> is_new_note_mode,
     editor |-> note_editor, tinput |-> title_input, stack |-> editor_stack,
     list |-> notes_list, lcur |-> list_current]

ListPaths(list) == { list[i].path : i \in 1..Len(list) }

\* the note made active, the text of the editor left as it was
show_note_keeps_text(st, item, note_data) == [st EXCEPT !.cur = item]

\* load_selected_note, lines 581-585: the content of the note is put into
\* the editor and the note is made the active one
show_note(st, item, note_data) ==
    [st EXCEPT !.editor = note_data.content, !.cur = item]

\* the note loaded again although it is the active one
load_selected_note_reloads(st, dsk, item) ==
    IF item = None THEN st
    ELSE
      LET st1 == IF st.newmode
                 THEN [st EXCEPT !.newmode = FALSE, !.stack = 1]
                 ELSE st
      IN  IF item \in DOMAIN st1.cache /\ is_dict(st1.cache[item])
          THEN [st1 EXCEPT !.editor = st1.cache[item].content, !.cur = item]
          ELSE st1

\* load_selected_note(current, previous), the slot of currentItemChanged
load_selected_note(st, dsk, item) ==
    IF item = None THEN st
    ELSE IF st.cur = item THEN st
    ELSE
      LET st1 == IF st.newmode
                 THEN [st EXCEPT !.newmode = FALSE, !.stack = 1]
                 ELSE st
      IN  IF item \in DOMAIN st1.cache
          THEN IF is_dict(st1.cache[item])
               THEN show_note(st1, item, st1.cache[item])
               ELSE st1
          ELSE IF item \in DOMAIN dsk /\ json_loadable(dsk[item])
          THEN LET note == json_load(dsk[item])
                   st2  == [st1 EXCEPT !.cache = Put(st1.cache, item, note)]
               IN  IF is_dict(note)
                   THEN show_note(st2, item, note)
                   ELSE st2
          ELSE st1

\* QListWidget.setCurrentRow / setCurrentItem: currentItemChanged is emitted
\* only when the current item changes
setCurrentItem(st, dsk, item) ==
    IF st.lcur = item THEN st
    ELSE load_selected_note([st EXCEPT !.lcur = item], dsk, item)

\* the files load_notes can turn into a list item: the try block of lines
\* 518-543 does not raise
Listable(cache, dsk, p) ==
    IF p \in DOMAIN cache THEN is_dict(cache[p])
    ELSE json_loadable(dsk[p]) /\ is_dict(json_load(dsk[p]))

\* load_notes()
load_notes(st, dsk) ==
    LET current_path == st.lcur
        note_files   == SortReverse(DOMAIN dsk)
        cache1       == [p \in (DOMAIN st.cache) \cup
                                 { q \in DOMAIN dsk : json_loadable(dsk[q]) } |->
                           IF p \in DOMAIN st.cache THEN st.cache[p]
                           ELSE json_load(dsk[p])]
        shown        == SelectSeq(note_files,
                                  LAMBDA p : Listable(st.cache, dsk, p))
        items        == [i \in 1..Len(shown) |->
                           [path |-> shown[i], title |-> cache1[shown[i]].title]]
        st1          == [st EXCEPT !.cache = cache1, !.list = items, !.lcur = None]
    IN  IF current_path # None /\ current_path \in ListPaths(items)
        THEN setCurrentItem(st1, dsk, current_path)
        ELSE st1

\* the active note not reset
create_new_note_keeps_current(st) ==
    [st EXCEPT !.newmode = TRUE, !.stack = 0, !.tinput = <<>>]

\* create_new_note()
create_new_note(st) ==
    [st EXCEPT !.newmode = TRUE, !.cur = None, !.stack = 0, !.tinput = <<>>]

\* perform_delete, lines 415-418: the note being deleted is the active one
clear_if_current(st, filepath) ==
    IF st.cur = filepath THEN [st EXCEPT !.cur = None, !.editor = ""] ELSE st

\* the cache entry of the deleted note kept
remove_from_cache_kept(cache, filepath) == cache

\* perform_delete, lines 424-425: del self.note_cache[filepath]
remove_from_cache(cache, filepath) ==
    IF filepath \in DOMAIN cache THEN Drop(cache, filepath) ELSE cache

\* no new note started when the list is empty
select_after_delete_no_new(st, dsk) ==
    IF Len(st.list) > 0
    THEN setCurrentItem(st, dsk, st.list[1].path)
    ELSE st

\* perform_delete, lines 431-435: select the first note or start a new one
select_after_delete(st, dsk) ==
    IF Len(st.list) > 0
    THEN setCurrentItem(st, dsk, st.list[1].path)
    ELSE create_new_note(st)

\* perform_delete(filepath); removed is whether os.remove succeeded.
\* The result is the window's state and the directory.
perform_delete(st, dsk, filepath, removed) ==
    LET st1 == clear_if_current(st, filepath)
    IN  IF ~removed
        THEN [st |-> st1, disk |-> dsk]
        ELSE LET dsk1 == Drop(dsk, filepath)
                 st2  == [st1 EXCEPT !.cache = remove_from_cache(st1.cache, filepath)]
                 st3  == load_notes(st2, dsk1)
             IN  [st |-> select_after_delete(st3, dsk1), disk |-> dsk1]

\* confirm_new_note, lines 463-465: the file path of a new note
new_filepath(now, title) == << now, replace_space(title) >>

\* confirm_new_note, lines 468-473
new_note_data(now, title) ==
    [dict |-> TRUE, title |-> title, content |-> "", created |-> now,
     updated |-> now]

\* the editor not cleared after the note is created
after_create_keep_text(st, dsk, filepath, note_data) ==
    LET st1 == [st EXCEPT !.cache = Put(st.cache, filepath, note_data)]
        st2 == load_notes(st1, dsk)
        st3 == [st2 EXCEPT !.stack = 1, !.newmode = FALSE, !.cur = filepath]
    IN  IF filepath \in ListPaths(st3.list)
        THEN setCurrentItem(st3, dsk, filepath)
        ELSE st3

\* confirm_new_note, lines 479-501: the write has succeeded
after_create(st, dsk, filepath, note_data) ==
    LET st1 == [st EXCEPT !.cache = Put(st.cache, filepath, note_data)]
        st2 == load_notes(st1, dsk)
        st3 == [st2 EXCEPT !.stack = 1, !.newmode = FALSE, !.cur = filepath]
        st4 == IF filepath \in ListPaths(st3.list)
               THEN setCurrentItem(st3, dsk, filepath)
               ELSE st3
    IN  [st4 EXCEPT !.editor = ""]

\* the note made active although its file could not be written
confirm_new_note_write_unchecked(st, dsk, now, outcome) ==
    LET title     == strip(st.tinput)
        filepath  == new_filepath(now, title)
        note_data == new_note_data(now, title)
        dsk1      == WriteFile(dsk, filepath, note_data, outcome)
    IN  IF title = <<>>
        THEN [st |-> st, disk |-> dsk, path |-> None, raised |-> FALSE]
        ELSE [st |-> after_create(st, dsk1, filepath, note_data), disk |-> dsk1,
              path |-> filepath, raised |-> FALSE]

\* confirm_new_note(); outcome is the outcome of the write, if one is made.
\* The result is the window's state, the directory, the path written (None
\* when the title is rejected) and whether the exception of a failing write
\* left the slot.
confirm_new_note(st, dsk, now, outcome) ==
    LET title     == strip(st.tinput)
        filepath  == new_filepath(now, title)
        note_data == new_note_data(now, title)
        dsk1      == WriteFile(dsk, filepath, note_data, outcome)
    IN  IF title = <<>>
        THEN [st |-> st, disk |-> dsk, path |-> None, raised |-> FALSE]
        ELSE IF outcome # "ok"
        THEN [st |-> st, disk |-> dsk1, path |-> filepath, raised |-> TRUE]
        ELSE [st |-> after_create(st, dsk1, filepath, note_data), disk |-> dsk1,
              path |-> filepath, raised |-> FALSE]

\* the comparison with the cached content left out
content_unchanged_never(st) == FALSE

\* save_current_note, lines 604-606: nothing to save
content_unchanged(st) ==
    /\ st.cur \in DOMAIN st.cache
    /\ is_dict(st.cache[st.cur])
    /\ st.cache[st.cur].content = st.editor

\* save_current_note, lines 604-616: an exception is raised before the cache
\* is written
save_raises(st, dsk) ==
    IF st.cur \in DOMAIN st.cache THEN ~is_dict(st.cache[st.cur])
    ELSE \/ st.cur \notin DOMAIN dsk
         \/ ~json_loadable(dsk[st.cur])
         \/ ~is_dict(json_load(dsk[st.cur]))

\* save_current_note(); outcome is the outcome of the write, if one is made.
\* The result is the window's state, the directory and whether a write was
\* attempted.
save_current_note(st, dsk, now, outcome) ==
    IF st.cur = None THEN [st |-> st, disk |-> dsk, wrote |-> FALSE]
    ELSE IF content_unchanged(st) THEN [st |-> st, disk |-> dsk, wrote |-> FALSE]
    ELSE IF save_raises(st, dsk)
    THEN [st |-> st, disk |-> dsk, wrote |-> FALSE]
    ELSE
      LET old       == IF st.cur \in DOMAIN st.cache THEN st.cache[st.cur]
                       ELSE json_load(dsk[st.cur])
          note_data == [old EXCEPT !.content = st.editor, !.updated = now]
      IN  [st    |-> [st EXCEPT !.cache = Put(st.cache, st.cur, note_data)],
           disk  |-> WriteFile(dsk, st.cur, note_data, outcome),
           wrote |-> TRUE]

\* NoteApp.__init__ over the directory dsk
FreshApp ==
    [cache |-> EmptyMap, cur |-> None, newmode |-> FALSE, editor |-> "",
     tinput |-> <<>>, stack |-> 0, list |-> <<>>, lcur |-> None]

startup(dsk) == create_new_note(load_notes(FreshApp, dsk))

\* ------------------------------------------------------------ transitions
Install(st) ==
    /\ note_cache' = st.cache
    /\ current_note' = st.cur
    /\ is_new_note_mode' = st.newmode
    /\ note_editor' = st.editor
    /\ title_input' = st.tinput
    /\ editor_stack' = st.stack
    /\ notes_list' = st.list
    /\ list_current' = st.lcur

Event(op, path, outcome) == [op |-> op, path |-> path, outcome |-> outcome]

\* the title and content of a write that completed
Saved(note) == [title |-> note.title, content |-> note.content]

Untracked == << "untracked" >>

\* the outgoing note is forgotten
Forgotten == IF outgoing = Untracked THEN Untracked ELSE <<>>

\* the outgoing note is forgotten once a tick has run after the switch, or
\* when its file is gone
Aged(dsk) ==
    IF outgoing = Untracked \/ outgoing = <<>> THEN outgoing
    ELSE IF last.op = "tick" \/ outgoing[1] \notin DOMAIN dsk THEN <<>>
    ELSE outgoing

\* the active note changes from a note, whose file stays, to another note
OutgoingAfter(st, dsk) ==
    IF outgoing = Untracked THEN Untracked
    ELSE IF /\ current_note # None
            /\ st.cur # None
            /\ st.cur # current_note
            /\ current_note \in DOMAIN dsk
    THEN << current_note, note_editor >>
    ELSE Aged(dsk)

Init ==
    /\ disk = EmptyMap
    /\ clock = 1
    /\ phase = "running"
    /\ note_cache = startup(EmptyMap).cache
    /\ current_note = startup(EmptyMap).cur
    /\ is_new_note_mode = startup(EmptyMap).newmode
    /\ note_editor = startup(EmptyMap).editor
    /\ title_input = startup(EmptyMap).tinput
    /\ editor_stack = startup(EmptyMap).stack
    /\ notes_list = startup(EmptyMap).list
    /\ list_current = startup(EmptyMap).lcur
    /\ last = Event("init", None, "none")
    /\ deleted = {}
    /\ persisted = EmptyMap
    /\ outgoing = Untracked

\* the "new note" button
NewNoteClicked ==
    /\ phase = "running"
    /\ Install(create_new_note(AppState))
    /\ last' = Event("input", None, "none")
    /\ outgoing' = Aged(disk)
    /\ UNCHANGED << disk, clock, phase, deleted, persisted >>

\* the user types into the title input, shown at index 0 of the stack
TypeTitle(t) ==
    /\ phase = "running"
    /\ editor_stack = 0
    /\ Install([AppState EXCEPT !.tinput = t])
    /\ last' = Event("input", None, "none")
    /\ outgoing' = Aged(disk)
    /\ UNCHANGED << disk, clock, phase, deleted, persisted >>

\* the user types into the editor, shown at index 1 of the stack
TypeContent(c) ==
    /\ phase = "running"
    /\ editor_stack = 1
    /\ Install([AppState EXCEPT !.editor = c])
    /\ last' = Event("input", None, "none")
    /\ outgoing' = Aged(disk)
    /\ UNCHANGED << disk, clock, phase, deleted, persisted >>

\* returnPressed of the title input; an exception that leaves the slot ends
\* the process
ConfirmNewNote(outcome) ==
    LET r == confirm_new_note(AppState, disk, clock, outcome)
    IN  /\ phase = "running"
        /\ editor_stack = 0
        /\ \/ r.path = None
           \/ r.path \in DOMAIN disk
           \/ Cardinality(DOMAIN disk) < MaxNotes
        /\ Install(r.st)
        /\ disk' = r.disk
        /\ phase' = IF r.raised THEN "crashed" ELSE "running"
        /\ last' = Event("confirm", r.path,
                         IF r.path = None THEN "rejected" ELSE outcome)
        /\ deleted' = IF r.path \in DOMAIN r.disk THEN deleted \ {r.path}
                      ELSE deleted
        /\ persisted' = IF r.path # None /\ outcome = "ok"
                        THEN Put(persisted, r.path, Saved(r.disk[r.path]))
                        ELSE persisted
        /\ outgoing' = Aged(r.disk)
        /\ UNCHANGED clock

\* the user clicks a list item (mousePressEvent of the view and
\* CustomListWidget.mouseReleaseEvent make it the current item)
SelectNote(p) ==
    /\ phase = "running"
    /\ p \in ListPaths(notes_list)
    /\ Install(setCurrentItem(AppState, disk, p))
    /\ last' = Event("select", p, "none")
    /\ outgoing' = OutgoingAfter(setCurrentItem(AppState, disk, p), disk)
    /\ UNCHANGED << disk, clock, phase, deleted, persisted >>

\* the delete button of a list item, the deletion confirmed or forced
DeleteNote(p, removed) ==
    LET r == perform_delete(AppState, disk, p, removed)
    IN  /\ phase = "running"
        /\ p \in ListPaths(notes_list)
        /\ Install(r.st)
        /\ disk' = r.disk
        /\ last' = Event("delete", p, IF removed THEN "ok" ELSE "failed")
        /\ deleted' = IF removed THEN deleted \cup {p} ELSE deleted
        /\ persisted' = IF removed /\ p \in DOMAIN persisted
                        THEN Drop(persisted, p) ELSE persisted
        /\ outgoing' = OutgoingAfter(r.st, r.disk)
        /\ UNCHANGED << clock, phase >>

\* save_current_note from the timer or from closeEvent
Save(op, outcome) ==
    LET r == save_current_note(AppState, disk, clock, outcome)
    IN  /\ Install(r.st)
        /\ disk' = r.disk
        /\ last' = Event(op, None, IF r.wrote THEN outcome ELSE "none")
        /\ persisted' = IF r.wrote /\ outcome = "ok"
                        THEN Put(persisted, current_note,
                                 Saved(r.disk[current_note]))
                        ELSE persisted
        /\ UNCHANGED << clock, deleted >>

\* timeout of the autosave timer
Tick(outcome) ==
    /\ phase = "running"
    /\ Save("tick", outcome)
    /\ outgoing' = Aged(disk)
    /\ UNCHANGED phase

\* closeEvent
CloseWindow(outcome) ==
    /\ phase = "running"
    /\ Save("close", outcome)
    /\ phase' = "closed"
    /\ outgoing' = Forgotten

\* the program is started again over the same directory
Restart ==
    /\ Install(startup(disk))
    /\ phase' = "running"
    /\ last' = Event("restart", None, "none")
    /\ outgoing' = Forgotten
    /\ UNCHANGED << disk, clock, deleted, persisted >>

\* a second passes
AdvanceClock ==
    /\ clock < MaxClock
    /\ clock' = clock + 1
    /\ UNCHANGED << disk, note_cache, current_note, is_new_note_mode,
                    note_editor, title_input, editor_stack, notes_list,
                    list_current, phase, last, deleted, persisted, outgoing >>

\* every path a note can get
Paths == (1..(MaxClock + 1)) \X { replace_space(strip(t)) : t \in TitleInputs }

Next ==
    \/ NewNoteClicked
    \/ \E t \in TitleInputs : TypeTitle(t)
    \/ \E c \in Contents : TypeContent(c)
    \/ \E o \in WriteOutcomes : ConfirmNewNote(o)
    \/ \E p \in ListPaths(notes_list) : SelectNote(p)
    \/ \E p \in ListPaths(notes_list) : \E removed \in BOOLEAN : DeleteNote(p, removed)
    \/ \E o \in WriteOutcomes : Tick(o)
    \/ \E o \in WriteOutcomes : CloseWindow(o)
    \/ Restart
    \/ AdvanceClock

Spec == Init /\ [][Next]_vars

\* ------------------------------------------- started over any directory
\* The window started over a directory that holds files already: notes, files
\* that hold JSON that is not an object, and files that do not parse.
DirNames == { <<"a">>, <<"a", "_", "b">>, <<"b">> }

DirPaths == {1} \X DirNames

NoteFile(p) ==
    [wf |-> TRUE, dict |-> TRUE, title |-> p[2], content |-> "x",
     created |-> p[1], updated |-> p[1]]

NonObjectFile ==
    [wf |-> TRUE, dict |-> FALSE, title |-> <<>>, content |-> "",
     created |-> 0, updated |-> 0]

Directories ==
    UNION { { d \in [S -> { NoteFile(p) : p \in S } \cup {NonObjectFile, TornFile}] :
                \A p \in S : d[p] \in {NoteFile(p), NonObjectFile, TornFile} } :
            S \in SUBSET DirPaths }

InitDir ==
    /\ disk \in Directories
    /\ clock = 1
    /\ phase = "running"
    /\ note_cache = startup(disk).cache
    /\ current_note = startup(disk).cur
    /\ is_new_note_mode = startup(disk).newmode
    /\ note_editor = startup(disk).editor
    /\ title_input = startup(disk).tinput
    /\ editor_stack = startup(disk).stack
    /\ notes_list = startup(disk).list
    /\ list_current = startup(disk).lcur
    /\ last = Event("init", None, "none")
    /\ deleted = {}
    /\ persisted = EmptyMap
    /\ outgoing = Untracked

NextDir ==
    \/ NewNoteClicked
    \/ \E t \in TitleInputs : TypeTitle(t)
    \/ \E o \in WriteOutcomes : ConfirmNewNote(o)
    \/ \E p \in ListPaths(notes_list) : SelectNote(p)
    \/ \E p \in ListPaths(notes_list) : \E removed \in BOOLEAN : DeleteNote(p, removed)
    \/ Restart
    \/ AdvanceClock

SpecDir == InitDir /\ [][NextDir]_vars

\* ------------------------------------------------- switching notes
\* The window with writes that succeed, the note that stops being active
\* recorded.
InitSwitch ==
    /\ disk = EmptyMap
    /\ clock = 1
    /\ phase = "running"
    /\ note_cache = startup(EmptyMap).cache
    /\ current_note = startup(EmptyMap).cur
    /\ is_new_note_mode = startup(EmptyMap).newmode
    /\ note_editor = startup(EmptyMap).editor
    /\ title_input = startup(EmptyMap).tinput
    /\ editor_stack = startup(EmptyMap).stack
    /\ notes_list = startup(EmptyMap).list
    /\ list_current = startup(EmptyMap).lcur
    /\ last = Event("init", None, "none")
    /\ deleted = {}
    /\ persisted = EmptyMap
    /\ outgoing = <<>>

NextSwitch ==
    \/ NewNoteClicked
    \/ \E t \in TitleInputs : TypeTitle(t)
    \/ \E c \in Contents : TypeContent(c)
    \/ ConfirmNewNote("ok")
    \/ \E p \in ListPaths(notes_list) : SelectNote(p)
    \/ \E p \in ListPaths(notes_list) : \E removed \in BOOLEAN : DeleteNote(p, removed)
    \/ Tick("ok")
    \/ AdvanceClock

SpecSwitch == InitSwitch /\ [][NextSwitch]_vars

\* ------------------------------------------------- the autosave timer
\* The timer started in __init__ fires every second while the window runs:
\* a tick that is possible is not put off for ever.
SpecLive == Init /\ [][Next]_vars /\ WF_vars(\E o \in WriteOutcomes : Tick(o))

\* ------------------------------------------------------------ properties
IsBlank(t) == \A i \in 1..Len(t) : t[i] = " "

Listed(p) == p \in ListPaths(notes_list)

OnDiskContent(p) ==
    IF p \in DOMAIN disk /\ json_loadable(disk[p]) /\ disk[p].dict
    THEN << json_load(disk[p]).content >> ELSE << >>

\* C1: after an autosave tick that completed without error while a note is
\* active, the cached record and the file of the active note both hold the
\* text of the editor.
C1_PersistRoundTrip ==
    (last.op = "tick" /\ last.outcome \in {"none", "ok"} /\ current_note # None)
    => /\ current_note \in DOMAIN note_cache
       /\ note_cache[current_note].content = note_editor
       /\ OnDiskContent(current_note) = << note_editor >>

\* C2: a note that was deleted is absent from the directory, from the cache
\* and from the list, and stays absent until a note is created at its path.
C2_DeletionFinality ==
    \A p \in deleted :
        /\ p \notin DOMAIN disk
        /\ p \notin DOMAIN note_cache
        /\ ~Listed(p)

C2_Witness ==
    /\ deleted # {}
    /\ last.op = "tick"
    /\ last.outcome = "ok"

\* C3: when the removal of the file fails, perform_delete leaves the active
\* note, the new-note mode, the editor, the cache and the list as they were.
C3_DeleteFailureUnchanged ==
    [][(\E p \in Paths : DeleteNote(p, FALSE))
        => UNCHANGED << current_note, is_new_note_mode, note_editor,
                        note_cache, notes_list >>]_vars

\* C4: confirm_new_note never writes to the path of a file that exists.
C4_UniquePath ==
    [][\A o \in WriteOutcomes :
         (ConfirmNewNote(o) /\ ~IsBlank(title_input))
            => last'.path \notin DOMAIN disk]_vars

\* the first item of the list is the greatest listed path
FirstIsGreatest(list) ==
    \A i \in 2..Len(list) : FileNameLess(list[i].path, list[1].path)

\* the first listed note is the active one
FirstIsActive ==
    /\ FirstIsGreatest(notes_list')
    /\ current_note' = notes_list'[1].path
    /\ ~is_new_note_mode'
    /\ current_note' \in DOMAIN note_cache'

ComposingNew ==
    /\ is_new_note_mode'
    /\ current_note' = None

C6_IdempotentTick ==
    [][\A o \in WriteOutcomes : Tick(o) =>
         /\ ( \/ current_note = None
              \/ /\ current_note \in DOMAIN note_cache
                 /\ note_cache[current_note].content = note_editor
              \/ last.op = "tick" /\ last.outcome # "none" )
            => /\ disk' = disk
               /\ note_cache' = note_cache
               /\ last'.outcome = "none"]_vars

C6_Witness ==
    /\ last.op = "tick"
    /\ last.outcome = "none"
    /\ current_note # None
    /\ note_editor = "x"
    /\ OnDiskContent(current_note) = << "x" >>

\* C7: confirming a title that is not blank, the write succeeding, leaves
\* the new note on disk and in the cache with empty content, listed, active,
\* the new-note mode off and the editor empty.
C7_CreatePostcondition ==
    [][(ConfirmNewNote("ok") /\ ~IsBlank(title_input)) =>
         LET p == last'.path
         IN  /\ p # None
             /\ p \in DOMAIN disk'
             /\ json_loadable(disk'[p])
             /\ json_load(disk'[p]).content = ""
             /\ p \in DOMAIN note_cache'
             /\ note_cache'[p].content = ""
             /\ p \in ListPaths(notes_list')
             /\ current_note' = p
             /\ ~is_new_note_mode'
             /\ editor_stack' = 1
             /\ note_editor' = ""]_vars

C7_Witness ==
    /\ last.op = "confirm"
    /\ last.outcome = "ok"
    /\ current_note = last.path
    /\ \E q \in DOMAIN note_cache :
          q # current_note /\ note_cache[q].content = "x" /\ Listed(q)

\* C8: confirming a blank title changes neither the directory, the cache nor
\* the list, and the window stays in new-note mode with no active note.
C8_EmptyTitleRejected ==
    [][\A o \in WriteOutcomes : (ConfirmNewNote(o) /\ IsBlank(title_input)) =>
         /\ UNCHANGED << disk, note_cache, notes_list, list_current,
                         note_editor, title_input, editor_stack, phase >>
         /\ is_new_note_mode /\ is_new_note_mode'
         /\ current_note = None /\ current_note' = None]_vars

C8_Witness ==
    /\ last.op = "confirm"
    /\ last.outcome = "rejected"
    /\ title_input = <<" ">>
    /\ notes_list # <<>>

\* C9: after a restart every note is listed with the title of its last
\* completed write, and selecting it loads the content of that write.
C9_RestartDurability ==
    last.op = "restart" =>
       \A p \in DOMAIN persisted :
          /\ \E i \in 1..Len(notes_list) :
                notes_list[i] = [path |-> p, title |-> persisted[p].title]
          /\ setCurrentItem(AppState, disk, p).cur = p
          /\ setCurrentItem(AppState, disk, p).editor = persisted[p].content

\* C10: after closeEvent returned without a write error while a note is
\* active, the file of the active note holds the text of the editor.
C10_ShutdownFlush ==
    (last.op = "close" /\ last.outcome \in {"none", "ok"} /\ current_note # None)
    => OnDiskContent(current_note) = << note_editor >>

\* a file load_notes can read as a note
WellFormed(p) == json_loadable(disk[p]) /\ disk[p].dict

\* C11: the list is in strictly descending order of file name, and of two
\* listed notes created in different seconds the one created later comes
\* first.
C11_ListOrdering ==
    \A i, j \in 1..Len(notes_list) :
       LET p == notes_list[i].path
           q == notes_list[j].path
       IN  /\ i < j => (FileNameLess(q, p) /\ ~FileNameLess(p, q))
           /\ note_cache[p].created > note_cache[q].created => i < j

\* a note created a second after the note that was in the directory
C11_Witness ==
    /\ Len(notes_list) = 2
    /\ last.op = "confirm"
    /\ last.outcome = "ok"
    /\ notes_list[1].path = last.path
    /\ note_cache[notes_list[1].path].created = 2
    /\ note_cache[notes_list[2].path].created = 1

\* the list was loaded by the callback that ran last
JustReloaded ==
    /\ phase = "running"
    /\ \/ last.op \in {"init", "restart"}
       \/ last.op = "confirm" /\ last.outcome = "ok"
       \/ last.op = "delete" /\ last.outcome = "ok"

\* C12: load_notes lists every well-formed file and no malformed one, so
\* the list is as long as there are well-formed files.
C12_CorruptFileResilience ==
    JustReloaded =>
       /\ ListPaths(notes_list) = { p \in DOMAIN disk : WellFormed(p) }
       /\ Len(notes_list) = Cardinality({ p \in DOMAIN disk : WellFormed(p) })

\* C13: when another note became active, the text the editor held for the
\* note that was active is in its file once the next tick has run without a
\* write error.
C13_SwitchKeepsEdits ==
    ( /\ last.op = "tick"
      /\ last.outcome \in {"none", "ok"}
      /\ outgoing # <<>>
      /\ outgoing # Untracked )
    => OnDiskContent(outgoing[1]) = << outgoing[2] >>

\* C14: when the write of a tick failed, the tick that follows it, the note
\* and the editor being the same, attempts the write again.
C14_RetryAfterFailure ==
    [][\A o \in WriteOutcomes :
         (Tick(o) /\ last.op = "tick" /\ last.outcome \in {"denied", "torn"})
            => last'.outcome # "none"]_vars

\* C15: every cached record equals the record in the file of its path.
C15_WriteThroughCache ==
    \A p \in DOMAIN note_cache :
        /\ p \in DOMAIN disk
        /\ json_loadable(disk[p])
        /\ json_load(disk[p]) = note_cache[p]

\* C16: no exception raised by the file system leaves a callback.
C16_NoUncaughtError == phase # "crashed"

\* C17: clicking a listed note while a new note is being composed ends the
\* new-note mode and makes the note active with its content in the editor.
C17_SelectFromComposingNew ==
    [][\A p \in Paths :
         (SelectNote(p) /\ is_new_note_mode /\ current_note = None)
            => /\ ~is_new_note_mode'
               /\ current_note' = p
               /\ p \in DOMAIN note_cache'
               /\ note_editor' = note_cache'[p].content]_vars

\* C18: the selection signal for the note that is active leaves the window,
\* the cache and the directory as they are, text not yet saved included; so
\* does a click on the active note.
C18_ReselectIsNoOp ==
    /\ [](current_note # None
            => load_selected_note(AppState, disk, current_note) = AppState)
    /\ [][\A p \in Paths : (SelectNote(p) /\ p = current_note)
            => UNCHANGED << disk, note_cache, current_note, is_new_note_mode,
                            note_editor, notes_list, list_current >>]_vars

\* the active note holds text not yet saved, after its selection was
\* restored by a reload of the list
C18_Witness ==
    /\ last.op = "delete"
    /\ last.outcome = "ok"
    /\ current_note # None
    /\ list_current = current_note
    /\ note_cache[current_note].content # note_editor

\* C19: the list shows exactly the well-formed files of the directory.
C19_ListReflectsStore ==
    phase = "running"
       => ListPaths(notes_list) = { p \in DOMAIN disk : WellFormed(p) }

\* C20: the new-note mode is never on while a note is active, so the window
\* is idle, composing a new note or editing a note, and only one of them.
C20_ActiveIdentityExclusive == ~(is_new_note_mode /\ current_note # None)

\* the window idle: no active note and the new-note mode off
C20_Witness ==
    /\ phase = "running"
    /\ ~is_new_note_mode
    /\ current_note = None
    /\ notes_list # <<>>

\* a write of the program has just failed
WriteFailed == last.outcome \in {"denied", "torn"}

\* C21: when from some point on note p stays active, the editor holds c and
\* no write fails, then from some point on the file of p holds c.
C21_EventuallySaved ==
    \A p \in Paths : \A c \in Contents :
        <>[](/\ phase = "running"
             /\ current_note = p
             /\ note_editor = c
             /\ ~WriteFailed)
            => <>[](OnDiskContent(p) = << c >>)

\* C22: in every state between callbacks the active note, if there is one,
\* is a key of the cache and has a file in the directory; save_current_note
\* is never run on an active note that is not cached.
C22_ActiveNoteCachedAndOnDisk ==
    /\ [](current_note # None
            => current_note \in DOMAIN note_cache /\ current_note \in DOMAIN disk)
    /\ [][\A o \in WriteOutcomes :
            ((Tick(o) \/ CloseWindow(o)) /\ current_note # None)
               => current_note \in DOMAIN note_cache]_vars

\* a note is active after a deletion, and its file has been torn by a write
C22_Witness ==
    /\ deleted # {}
    /\ current_note # None
    /\ current_note \in DOMAIN disk
    /\ ~json_loadable(disk[current_note])

\* C23: a note that becomes active is shown with its own stored content;
\* while it stays active the editor changes only when the user types into
\* it; a tick or the close of the window writes nowhere but to the file of
\* the active note, and what it writes is the text of the editor.
C23_NoCrossNoteContamination ==
    [][/\ (current_note' # None /\ current_note' # current_note)
            => /\ current_note' \in DOMAIN note_cache'
               /\ note_editor' = note_cache'[current_note'].content
       /\ (current_note' # None /\ current_note' = current_note
               /\ note_editor' # note_editor)
            => \E c \in Contents : TypeContent(c)
       /\ \A o \in WriteOutcomes :
            (Tick(o) \/ CloseWindow(o))
               => /\ DOMAIN disk' = DOMAIN disk
                  /\ \A q \in DOMAIN disk :
                        disk'[q] # disk[q]
                           => /\ q = current_note
                              /\ json_loadable(disk'[q])
                                    => json_load(disk'[q]).content = note_editor]_vars

\* a tick has written the text of the active note while another note holds
\* a different text
C23_Witness ==
    /\ last.op = "tick"
    /\ last.outcome = "ok"
    /\ current_note # None
    /\ \E q \in DOMAIN disk :
          /\ q # current_note
          /\ OnDiskContent(q) # << >>
          /\ OnDiskContent(q) # << note_editor >>
          /\ OnDiskContent(current_note) = << note_editor >>

====
